---- MODULE Spec2Model ----
(***************************************************************************)
(* Terminal agent: agent_cli.main dispatches 'ask' (one chat call) and     *)
(* 'do' (planner.get_action_plan, then executor.show_plan or               *)
(* executor.execute_plan, which calls the functions of core/tools.py).     *)
(*                                                                         *)
(* Text is modelled as a sequence of tokens (fence, newline, blank, word,  *)
(* JSON value); a shell command as a sequence of one-character strings.    *)
(***************************************************************************)
EXTENDS Integers, Sequences, FiniteSets, TLC

VARIABLES
    command,      \* args.command: "ask" or "do"
    dry_run,      \* args.dry_run
    pc,           \* position of main()
    raw,          \* get_action_plan: the model response (while in scope)
    data,         \* get_action_plan: the value _extract_json returned
    plan,         \* main: the value get_action_plan returned
    proceedInput, \* what the user typed at 'Proceed with these actions?'
    idx,          \* execute_plan: 1-based index of the next action
    llmCalls,     \* modes of the LLMClient.chat calls made so far
    prompts,      \* Confirm.ask prompts asked so far
    toolCalls,    \* calls made into core/tools.py so far
    attempted,    \* indices of the actions execute_plan has started
    console,      \* messages printed by the executor for skipped actions
    lastResult,   \* outcome of the most recent call into core/tools.py
    exc,          \* exception that left main(), if any
    fs,           \* what is on disk when a function of core/tools.py is called
    call,         \* that call: the function and its arguments
    ret,          \* what the call returned
    fsAfter       \* what is on disk when the call has returned

mainVars == <<command, dry_run, pc, raw, data, plan, proceedInput, idx, llmCalls,
              prompts, toolCalls, attempted, console, lastResult, exc>>

\* the variables of a direct call of a function of core/tools.py
toolVars == <<fs, call, ret, fsAfter>>

vars == <<command, dry_run, pc, raw, data, plan, proceedInput, idx, llmCalls,
          prompts, toolCalls, attempted, console, lastResult, exc,
          fs, call, ret, fsAfter>>

\* no call of a tool function is being looked at
NoDisk == [kind |-> "none"]
NoCall == [fn |-> "none"]
NoReturn == [ok |-> FALSE, fn |-> "none"]

-----------------------------------------------------------------------------
(* Bounds *)

MaxActions == 2     \* longest plan the model returns
MaxRawLen == 3      \* longest exhaustively enumerated response text
MaxCmdLen == 4      \* longest exhaustively enumerated shell command

-----------------------------------------------------------------------------
(* Strings as sequences of characters; str.lower and the 'in' operator *)

UpperChars == {"M", "K", "F", "S", "R"}

Lower(c) ==
    CASE c = "M" -> "m"
      [] c = "K" -> "k"
      [] c = "F" -> "f"
      [] c = "S" -> "s"
      [] c = "R" -> "r"
      [] OTHER -> c

LowerStr(s) == [i \in 1..Len(s) |-> Lower(s[i])]

\* Python: pattern in text
Contains(text, pattern) ==
    \E i \in 0..(Len(text) - Len(pattern)) :
        \A j \in 1..Len(pattern) : text[i + j] = pattern[j]

DANGEROUS_SUBSTRINGS ==
    << <<"r", "m", " ", "-", "r", "f", " ", "/">>,
       <<"m", "k", "f", "s">>,
       <<":", "(", ")", "{", " ", ":", "|", ":", "&", " ", "}", ";", ":">> >>

\* the same test with the lower() call dropped
IsCommandSafe_NoLower(cmd) ==
    \A k \in 1..Len(DANGEROUS_SUBSTRINGS) : ~Contains(cmd, DANGEROUS_SUBSTRINGS[k])

_is_command_safe(cmd) ==
    LET cmd_lower == LowerStr(cmd)
    IN  \A k \in 1..Len(DANGEROUS_SUBSTRINGS) :
            ~Contains(cmd_lower, DANGEROUS_SUBSTRINGS[k])

-----------------------------------------------------------------------------
(* JSON values, as json.loads produces them *)

ToolNames == {"run_shell", "read_file", "write_file", "find_item",
              "summarize_file", "list_directory", "search_content",
              "get_file_info", "copy_file", "move_file", "compare_files",
              "extract_archive"}

\* the "args" member of an action: kind is the JSON type of the member;
\* command is the text of args["command"]; target is the required
\* path/name/query argument(s) of the tool; num is the value given for
\* max_bytes / max_results / context_lines
Args(k, c, t, n) == [kind |-> k, command |-> c, target |-> t, num |-> n]
NoArgs == Args("absent", <<>>, "absent", "absent")

\* one element of the "actions" list: tool is a tool name, "<absent>" when
\* the member is missing, "<num>" when it is a number
ActionJson(k, t, a) == [kind |-> k, tool |-> t, args |-> a]

ActionsJson(k, items) == [kind |-> k, items |-> items]
NoActions == ActionsJson("absent", <<>>)

\* a JSON value: kind is its type; for an object, plan is the type of its
\* "plan" member and actions its "actions" member.  "bigint" is an integer
\* literal longer than the interpreter's integer-conversion digit limit.
Json(k, p, a) == [kind |-> k, plan |-> p, actions |-> a]
JNull == Json("null", "absent", NoActions)
JList == Json("list", "absent", NoActions)
JStr == Json("str", "absent", NoActions)
JNum == Json("num", "absent", NoActions)
JBool == Json("bool", "absent", NoActions)
JBigInt == Json("bigint", "absent", NoActions)

\* Python None is what json.loads gives for the text null
None == JNull

-----------------------------------------------------------------------------
(* Text of a model response *)

Tok(t) == [t |-> t, v |-> JNull]
Val(d) == [t |-> "val", v |-> d]
FENCE == Tok("fence")     \* ```
NL == Tok("nl")           \* \n
WS == Tok("ws")           \* blank
WORD == Tok("word")       \* any other text, e.g. json or Here is the plan

IsSpace(tk) == tk.t \in {"nl", "ws"}

RECURSIVE LStrip(_)
LStrip(s) == IF s # <<>> /\ IsSpace(s[1]) THEN LStrip(Tail(s)) ELSE s

RECURSIVE RStrip(_)
RStrip(s) ==
    IF s # <<>> /\ IsSpace(s[Len(s)]) THEN RStrip(SubSeq(s, 1, Len(s) - 1)) ELSE s

\* str.strip
Strip(s) == RStrip(LStrip(s))

\* str.find(token, start), 1-based; 0 when absent (Python's -1)
Find(s, t, start) ==
    LET hits == {i \in start..Len(s) : s[i].t = t}
    IN  IF hits = {} THEN 0 ELSE CHOOSE i \in hits : \A j \in hits : i <= j

\* str.splitlines
RECURSIVE SplitLines(_)
SplitLines(s) ==
    IF s = <<>> THEN <<>>
    ELSE LET n == Find(s, "nl", 1)
         IN  IF n = 0 THEN <<s>>
             ELSE <<SubSeq(s, 1, n - 1)>> \o SplitLines(SubSeq(s, n + 1, Len(s)))

\* "\n".join
RECURSIVE JoinLines(_)
JoinLines(ls) ==
    IF ls = <<>> THEN <<>>
    ELSE IF Len(ls) = 1 THEN ls[1]
    ELSE ls[1] \o <<NL>> \o JoinLines(Tail(ls))

\* json.loads.  The text is one JSON value surrounded by blanks, or the call
\* raises JSONDecodeError.  An integer literal beyond the interpreter's
\* digit limit raises a plain ValueError on builds that enforce the limit
\* (digit_limit) and is a number on builds that do not.
JsonLoads(s, digit_limit) ==
    LET t == Strip(s)
    IN  IF Len(t) = 1 /\ t[1].t = "val"
        THEN IF t[1].v.kind = "bigint"
             THEN IF digit_limit THEN [out |-> "ValueError", v |-> None]
                                 ELSE [out |-> "value", v |-> JNum]
             ELSE [out |-> "value", v |-> t[1].v]
        ELSE [out |-> "JSONDecodeError", v |-> None]

-----------------------------------------------------------------------------
(* core/planner.py *)

Returned(v) == [raised |-> "none", v |-> v]
Raised(e) == [raised |-> e, v |-> None]

\* a line whose stripped text starts with a fence
IsFenceLine(line) == LET l == Strip(line) IN l # <<>> /\ l[1].t = "fence"

\* the line-by-line loop of _extract_json: the lines between the first
\* fence line and the next one
RECURSIVE FenceInner(_, _)
FenceInner(lines, in_fence) ==
    IF lines = <<>> THEN <<>>
    ELSE IF IsFenceLine(lines[1])
         THEN IF ~in_fence THEN FenceInner(Tail(lines), TRUE) ELSE <<>>
         ELSE IF in_fence
              THEN <<lines[1]>> \o FenceInner(Tail(lines), in_fence)
              ELSE FenceInner(Tail(lines), in_fence)

\* the fallback of _extract_json
ExtractByLines(text, digit_limit) ==
    LET joined == Strip(JoinLines(FenceInner(SplitLines(text), FALSE)))
        r == JsonLoads(joined, digit_limit)
    IN  IF joined = <<>> THEN Returned(None)
        ELSE IF r.out = "value" THEN Returned(r.v)
        ELSE IF r.out = "JSONDecodeError" THEN Returned(None)
        ELSE Raised(r.out)

\* the fence-stripping attempt of _extract_json
ExtractFenced(text, digit_limit) ==
    LET start_idx == Find(text, "fence", 1)
        start_line_end == Find(text, "nl", start_idx)
        end_idx == Find(text, "fence", start_line_end)
        json_content == Strip(SubSeq(text, start_line_end + 1, end_idx - 1))
        r == JsonLoads(json_content, digit_limit)
    IN  IF start_line_end = 0 THEN Returned(None)
        ELSE IF end_idx # 0 /\ r.out = "value" THEN Returned(r.v)
        ELSE IF end_idx # 0 /\ r.out # "JSONDecodeError" THEN Raised(r.out)
        ELSE ExtractByLines(text, digit_limit)

_extract_json(rawtext, digit_limit) ==
    LET text == Strip(rawtext)
        r == JsonLoads(text, digit_limit)
    IN  IF text = <<>> THEN Returned(None)
        ELSE IF r.out = "value" THEN Returned(r.v)
        ELSE IF r.out # "JSONDecodeError" THEN Raised(r.out)
        ELSE IF Find(text, "fence", 1) # 0 THEN ExtractFenced(text, digit_limit)
        ELSE Returned(None)

-----------------------------------------------------------------------------
(* models/action.py, models/plan.py *)

\* a validated Action: the tool name and the argument map
Action(t, a) == [tool |-> t, args |-> a]

\* a Plan instance, or the None that get_action_plan returns instead
Plan(p, acts) == [isNone |-> FALSE, plan |-> p, actions |-> acts]
NonePlan == [isNone |-> TRUE, plan |-> "", actions |-> <<>>]

\* Action: tool is a required str, args a dict defaulting to {}
ActionValid(a) ==
    /\ a.kind = "obj"
    /\ a.tool \notin {"<absent>", "<num>"}
    /\ a.args.kind \in {"absent", "obj"}

\* Plan: plan is a str with a default, actions a list of Action defaulting
\* to []
PlanValid(d) ==
    /\ d.kind = "obj"
    /\ d.plan \in {"absent", "str"}
    /\ d.actions.kind \in {"absent", "list"}
    /\ \A i \in 1..Len(d.actions.items) : ActionValid(d.actions.items[i])

\* the instance the validation builds (defaults filled in)
ToPlan(d) ==
    Plan(IF d.plan = "absent" THEN "default" ELSE d.plan,
         [i \in 1..Len(d.actions.items) |->
            Action(d.actions.items[i].tool,
                   IF d.actions.items[i].args.kind = "absent"
                   THEN Args("obj", <<>>, "absent", "absent")
                   ELSE d.actions.items[i].args)])

\* Plan.model_validate: the instance, or ValidationError
ModelValidate(d) ==
    IF PlanValid(d) THEN [out |-> "plan", plan |-> ToPlan(d)]
    ELSE [out |-> "ValidationError", plan |-> NonePlan]

\* get_action_plan after the model call returned rawtext: what it returns
\* or raises, and the value _extract_json gave it
get_action_plan(rawtext, digit_limit) ==
    LET e == _extract_json(rawtext, digit_limit)
        m == ModelValidate(e.v)
    IN  IF e.raised # "none"
        THEN [raised |-> e.raised, data |-> None, plan |-> NonePlan]
        ELSE IF e.v = None
        THEN [raised |-> "none", data |-> e.v, plan |-> NonePlan]
        ELSE IF m.out = "ValidationError"
        THEN [raised |-> "none", data |-> e.v, plan |-> NonePlan]
        ELSE [raised |-> "none", data |-> e.v, plan |-> m.plan]

-----------------------------------------------------------------------------
(* core/tools.py: what a call returns or raises.  env is what the operating *)
(* system does during the call: "ok" (every call succeeds), "missing" (the  *)
(* file, directory or archive is not there), "oserror" (a filesystem or     *)
(* process call raises), "cwd_gone" (the working directory was removed, so  *)
(* Path.cwd() raises FileNotFoundError)                                     *)

\* a result dictionary: ok, whether it has an "error" text, and what the
\* caller looks at in it
Ok(tool, content) ==
    [tool |-> tool, raised |-> "none", ok |-> TRUE, error |-> FALSE,
     content |-> content]
Err(tool) ==
    [tool |-> tool, raised |-> "none", ok |-> FALSE, error |-> TRUE,
     content |-> "-"]
\* no dictionary: the exception reaches the caller
Raise(tool, e) ==
    [tool |-> tool, raised |-> e, ok |-> FALSE, error |-> FALSE,
     content |-> "-"]
NoResult ==
    [tool |-> "none", raised |-> "none", ok |-> TRUE, error |-> FALSE,
     content |-> "-"]

FileEnv == {"ok", "missing", "oserror"}

\* whole body inside try/except Exception
run_shell(cmd, env) ==
    IF env = "ok" THEN Ok("run_shell", "returncode") ELSE Err("run_shell")

read_file(env) ==
    IF env = "ok" THEN Ok("read_file", "content") ELSE Err("read_file")

write_file(env) ==
    IF env = "ok" THEN Ok("write_file", "bytes_after") ELSE Err("write_file")

\* what the directory scan of find_item found: nothing, several entries, or
\* one file scoring >= 0.85 (below or from 0.9)
FindEnv == {"cwd_gone", "oserror", "none", "many", "one85", "one90"}

\* name.strip(), Path.cwd(), Path.home(), exists() and resolve() run outside
\* any try; only the rglob loop is guarded, and an unreadable root is skipped
find_item(name, env) ==
    IF name = "absent" THEN Err("find_item")
    ELSE IF env = "cwd_gone" THEN Raise("find_item", "FileNotFoundError")
    ELSE IF env = "oserror" THEN Ok("find_item", "none")
    ELSE Ok("find_item", env)

\* the file summarize_file picks: readable text, an empty file, or none
SummarizeEnv == {"cwd_gone", "oserror", "none", "text", "empty"}

\* the find_item call is outside any try; the reads are guarded
summarize_file(name, env) ==
    LET find_result == find_item(name, IF env \in {"text", "empty"} THEN "many" ELSE env)
    IN  IF find_result.raised # "none" THEN Raise("summarize_file", find_result.raised)
        ELSE IF ~find_result.ok THEN Err("summarize_file")
        ELSE IF find_result.content = "none" THEN Err("summarize_file")
        ELSE IF env = "text" THEN Ok("summarize_file", "content_preview")
        ELSE Ok("summarize_file", "empty_preview")

list_directory(env) ==
    IF env = "ok" THEN Ok("list_directory", "items") ELSE Err("list_directory")

search_content(env) ==
    IF env = "ok" THEN Ok("search_content", "results") ELSE Err("search_content")

get_file_info(env) ==
    IF env = "ok" THEN Ok("get_file_info", "file_info") ELSE Err("get_file_info")

copy_file(env) ==
    IF env = "ok" THEN Ok("copy_file", "destination") ELSE Err("copy_file")

move_file(env) ==
    IF env = "ok" THEN Ok("move_file", "destination") ELSE Err("move_file")

compare_files(env) ==
    IF env = "ok" THEN Ok("compare_files", "diff") ELSE Err("compare_files")

extract_archive(env) ==
    IF env = "ok" THEN Ok("extract_archive", "extracted_files")
    ELSE Err("extract_archive")

-----------------------------------------------------------------------------
(* core/executor.py *)

\* what the user types at a yes/no prompt: y, n, or just Enter
Inputs == {"y", "n", ""}

\* rich Confirm.ask: Enter takes the default
ConfirmAsk(input, default) == IF input = "" THEN default ELSE input = "y"

\* the prompt with the default turned to yes
ProceedAnswer_DefaultYes(input) == ConfirmAsk(input, TRUE)

\* execute_plan: Confirm.ask("Proceed with these actions?", default=False)
ProceedAnswer(input) == ConfirmAsk(input, FALSE)

\* int(action.args.get(key, default)): the exception it raises, if any
IntArg(num) ==
    CASE num = "word" -> "ValueError"
      [] num = "null" -> "TypeError"
      [] OTHER -> "none"

Call(tool, cmd) == [tool |-> tool, command |-> cmd]
Msg(text) == [i |-> idx, msg |-> text]

\* the loop of execute_plan is at an action of this tool
AtTool(tool) ==
    /\ pc = "exec"
    /\ idx \in 1..Len(plan.actions)
    /\ plan.actions[idx].tool = tool

\* one iteration of the loop of execute_plan: the handler made these calls,
\* asked these prompts and printed these messages; an exception it raised
\* leaves execute_plan and main
Step(calls, asked, printed, llm, result, raisedExc) ==
    /\ attempted' = Append(attempted, idx)
    /\ toolCalls' = toolCalls \o calls
    /\ prompts' = prompts \o asked
    /\ console' = console \o printed
    /\ llmCalls' = llmCalls \o llm
    /\ lastResult' = result
    /\ IF raisedExc # "none"
       THEN /\ pc' = "raised"
            /\ exc' = [type |-> raisedExc, origin |-> "execute_plan"]
            /\ idx' = idx
       ELSE /\ pc' = IF idx = Len(plan.actions) THEN "done" ELSE "exec"
            /\ exc' = exc
            /\ idx' = idx + 1
    /\ UNCHANGED <<command, dry_run, raw, data, plan, proceedInput>>
    /\ UNCHANGED toolVars

Skip(text) == Step(<<>>, <<>>, <<Msg(text)>>, <<>>, lastResult, "none")
Throw(e) == Step(<<>>, <<>>, <<>>, <<>>, lastResult, e)
\* the handler calls the tool and hands the result to _print_result
Invoke(tool, cmd, result) ==
    Step(<<Call(tool, cmd)>>, <<>>, <<>>, <<>>, result, result.raised)

_exec_run_shell ==
    /\ AtTool("run_shell")
    /\ LET cmd == plan.actions[idx].args.command
       IN  IF cmd = <<>> THEN Skip("missing")
           ELSE IF ~_is_command_safe(cmd) THEN Skip("blocked")
           ELSE \E env \in {"ok", "oserror"} :
                    Invoke("run_shell", cmd, run_shell(cmd, env))

_exec_read_file ==
    /\ AtTool("read_file")
    /\ LET a == plan.actions[idx].args
       IN  IF IntArg(a.num) # "none" THEN Throw(IntArg(a.num))
           ELSE IF a.target = "absent" THEN Skip("missing")
           ELSE \E env \in FileEnv : Invoke("read_file", <<>>, read_file(env))

_exec_write_file ==
    /\ AtTool("write_file")
    /\ LET a == plan.actions[idx].args
       IN  IF a.target = "absent" THEN Skip("missing")
           ELSE \E input \in Inputs, env \in {"ok", "oserror"} :
                IF ~ConfirmAsk(input, FALSE)
                THEN Step(<<>>, <<"write">>, <<Msg("skipped")>>, <<>>,
                          lastResult, "none")
                ELSE Step(<<Call("write_file", <<>>)>>, <<"write">>, <<>>, <<>>,
                          write_file(env), "none")

_exec_find_item ==
    /\ AtTool("find_item")
    /\ LET a == plan.actions[idx].args
       IN  IF IntArg(a.num) # "none" THEN Throw(IntArg(a.num))
           ELSE IF a.target = "absent" THEN Skip("missing")
           ELSE \E env \in FindEnv, input \in Inputs, env2 \in FileEnv :
                LET result == find_item(a.target, env)
                    should_offer_read == result.ok /\ result.content \in {"one85", "one90"}
                    default_read == result.content = "one90"
                IN  IF result.raised # "none"
                    THEN Invoke("find_item", <<>>, result)
                    ELSE IF ~should_offer_read
                    THEN Invoke("find_item", <<>>, result)
                    ELSE IF ~ConfirmAsk(input, default_read)
                    THEN Step(<<Call("find_item", <<>>)>>, <<"read">>, <<>>, <<>>,
                              result, "none")
                    ELSE Step(<<Call("find_item", <<>>), Call("read_file", <<>>)>>,
                              <<"read">>, <<>>, <<>>, read_file(env2), "none")

_exec_summarize_file ==
    /\ AtTool("summarize_file")
    /\ LET a == plan.actions[idx].args
       IN  IF IntArg(a.num) # "none" THEN Throw(IntArg(a.num))
           ELSE IF a.target = "absent" THEN Skip("missing")
           ELSE \E env \in SummarizeEnv, chat \in {"answer", "error"} :
                LET result == summarize_file(a.target, env)
                IN  IF result.raised # "none"
                    THEN Invoke("summarize_file", <<>>, result)
                    ELSE IF ~(result.ok /\ result.content = "content_preview")
                    THEN Invoke("summarize_file", <<>>, result)
                    ELSE Step(<<Call("summarize_file", <<>>)>>, <<>>, <<>>,
                              <<"chat">>, result,
                              IF chat = "error" THEN "RequestException" ELSE "none")

_exec_list_directory ==
    /\ AtTool("list_directory")
    /\ \E env \in FileEnv : Invoke("list_directory", <<>>, list_directory(env))

_exec_search_content ==
    /\ AtTool("search_content")
    /\ LET a == plan.actions[idx].args
       IN  IF IntArg(a.num) # "none" THEN Throw(IntArg(a.num))
           ELSE IF a.target = "absent" THEN Skip("missing")
           ELSE \E env \in FileEnv :
                    Invoke("search_content", <<>>, search_content(env))

_exec_get_file_info ==
    /\ AtTool("get_file_info")
    /\ IF plan.actions[idx].args.target = "absent" THEN Skip("missing")
       ELSE \E env \in FileEnv : Invoke("get_file_info", <<>>, get_file_info(env))

_exec_copy_file ==
    /\ AtTool("copy_file")
    /\ IF plan.actions[idx].args.target = "absent" THEN Skip("missing")
       ELSE \E env \in FileEnv : Invoke("copy_file", <<>>, copy_file(env))

_exec_move_file ==
    /\ AtTool("move_file")
    /\ IF plan.actions[idx].args.target = "absent" THEN Skip("missing")
       ELSE \E env \in FileEnv : Invoke("move_file", <<>>, move_file(env))

_exec_compare_files ==
    /\ AtTool("compare_files")
    /\ LET a == plan.actions[idx].args
       IN  IF IntArg(a.num) # "none" THEN Throw(IntArg(a.num))
           ELSE IF a.target = "absent" THEN Skip("missing")
           ELSE \E env \in FileEnv :
                    Invoke("compare_files", <<>>, compare_files(env))

_exec_extract_archive ==
    /\ AtTool("extract_archive")
    /\ IF plan.actions[idx].args.target = "absent" THEN Skip("missing")
       ELSE \E env \in FileEnv :
                Invoke("extract_archive", <<>>, extract_archive(env))

\* the else branch of the dispatch: "Unknown tool ..., skipping."
UnknownTool ==
    /\ pc = "exec"
    /\ idx \in 1..Len(plan.actions)
    /\ plan.actions[idx].tool \notin ToolNames
    /\ Skip("unknown")

\* execute_plan from the answer to its prompt up to the loop
ConfirmProceed ==
    /\ pc = "confirm"
    /\ \E input \in Inputs :
        /\ proceedInput' = input
        /\ IF ~ProceedAnswer(input)
           THEN /\ pc' = "done"
                /\ console' = Append(console, [i |-> 0, msg |-> "cancelled"])
           ELSE IF plan.actions = <<>>
           THEN /\ pc' = "done"
                /\ console' = Append(console, [i |-> 0, msg |-> "nothing"])
           ELSE /\ pc' = "exec"
                /\ console' = console
    /\ idx' = 1
    /\ UNCHANGED <<command, dry_run, raw, data, plan, llmCalls, prompts,
                   toolCalls, attempted, lastResult, exc>>
    /\ UNCHANGED toolVars

-----------------------------------------------------------------------------
(* The responses the model may give *)

SeqsUpTo(S, n) == UNION {[1..k -> S] : k \in 0..n}

Good == Args("obj", <<>>, "present", "absent")
Cmd(c) == Args("obj", c, "absent", "absent")

CmdLs == <<"l", "s">>
CmdRm == <<"R", "m", " ", "-", "r", "F", " ", "/">>
CmdForkBomb == <<":", "(", ")", "{", " ", ":", "|", ":", "&", " ", "}", ";", ":">>

\* well-formed elements of "actions"
ValidPool ==
    {ActionJson("obj", "run_shell", Cmd(c)) : c \in {CmdLs, <<>>, CmdRm, CmdForkBomb}}
    \cup {ActionJson("obj", t, Good) : t \in (ToolNames \ {"run_shell"}) \cup {"frobnicate"}}
    \cup {ActionJson("obj", "read_file", Args("obj", <<>>, "present", "word")),
          ActionJson("obj", "find_item", Args("obj", <<>>, "present", "null")),
          ActionJson("obj", "write_file", Args("obj", <<>>, "absent", "absent")),
          ActionJson("obj", "list_directory", NoArgs)}

\* elements Action rejects: no tool, a numeric tool, args that is a list,
\* an element that is a string
InvalidPool ==
    {ActionJson("obj", "<absent>", Good),
     ActionJson("obj", "<num>", Good),
     ActionJson("obj", "read_file", Args("list", <<>>, "absent", "absent")),
     ActionJson("str", "<absent>", NoArgs)}

\* every command of up to MaxCmdLen characters over these characters
ShellChars == {"m", "M", "k", "f", "s", " "}
ShellInputs == SeqsUpTo(ShellChars, MaxCmdLen)

ObjectDocs ==
    {Json("obj", p, ActionsJson("list", items)) :
        p \in {"absent", "str"}, items \in SeqsUpTo(ValidPool \cup InvalidPool, MaxActions)}
    \cup {Json("obj", "str", ActionsJson("list", <<ActionJson("obj", "run_shell", Cmd(c))>>)) :
            c \in ShellInputs}
    \cup {Json("obj", "str", NoActions), Json("obj", "absent", NoActions),
          Json("obj", "num", NoActions), Json("obj", "str", ActionsJson("str", <<>>))}

ScalarDocs == {JNull, JList, JStr, JNum, JBool, JBigInt}

OneActionDoc ==
    Json("obj", "str", ActionsJson("list", <<ActionJson("obj", "list_directory", Good)>>))

SmallDocs ==
    ScalarDocs \cup
    {OneActionDoc, Json("obj", "absent", NoActions), Json("obj", "num", NoActions),
     Json("obj", "str", ActionsJson("list", <<ActionJson("obj", "<num>", Good)>>))}

\* the ways the model wraps its JSON
Framings(d) ==
    {<<Val(d)>>,
     <<WS, Val(d), NL>>,
     <<FENCE, WORD, NL, Val(d), NL, FENCE>>,
     <<WORD, NL, FENCE, NL, Val(d), NL, FENCE, NL, WORD>>,
     <<FENCE, WORD, NL, Val(d)>>,
     <<WORD, FENCE, WORD, NL, FENCE, NL, Val(d), NL, FENCE>>,
     <<FENCE, Val(d), FENCE>>,
     <<WORD, Val(d)>>,
     <<Val(d), Val(d)>>}

\* every text of up to MaxRawLen tokens over these tokens
TextTokens == {FENCE, NL, WS, WORD, Val(OneActionDoc), Val(JList), Val(JBigInt)}
ShortTexts == SeqsUpTo(TextTokens, MaxRawLen)

Responses ==
    {<<Val(d)>> : d \in ObjectDocs}
    \cup UNION {Framings(d) : d \in SmallDocs}
    \cup ShortTexts

-----------------------------------------------------------------------------
(* agent_cli.py *)

NoExc == [type |-> "none", origin |-> "none"]

\* what show_plan prints
show_plan(p, dry) ==
    IF p.actions = <<>>
    THEN <<[i |-> 0, msg |-> "plan"], [i |-> 0, msg |-> "no_actions"]>>
    ELSE IF dry
    THEN <<[i |-> 0, msg |-> "plan"], [i |-> 0, msg |-> "actions"],
           [i |-> 0, msg |-> "dry_run"]>>
    ELSE <<[i |-> 0, msg |-> "plan"], [i |-> 0, msg |-> "actions"]>>

Init ==
    /\ command \in {"ask", "do"}
    /\ dry_run \in BOOLEAN
    /\ command = "ask" => dry_run = FALSE
    /\ pc = "start"
    /\ raw = <<>>
    /\ data = None
    /\ plan = NonePlan
    /\ proceedInput = "unasked"
    /\ idx = 0
    /\ llmCalls = <<>>
    /\ prompts = <<>>
    /\ toolCalls = <<>>
    /\ attempted = <<>>
    /\ console = <<>>
    /\ lastResult = NoResult
    /\ exc = NoExc
    /\ fs = NoDisk
    /\ call = NoCall
    /\ ret = NoReturn
    /\ fsAfter = NoDisk

\* 'ask' sent through the planning prompt
AskChat_ActionMode ==
    /\ pc = "start"
    /\ command = "ask"
    /\ llmCalls' = Append(llmCalls, "action")
    /\ pc' = "done"
    /\ UNCHANGED <<command, dry_run, raw, data, plan, proceedInput, idx, prompts,
                   toolCalls, attempted, console, lastResult, exc>>
    /\ UNCHANGED toolVars

\* main, command 'ask': one chat call, the answer printed
AskChat ==
    /\ pc = "start"
    /\ command = "ask"
    /\ llmCalls' = Append(llmCalls, "chat")
    /\ \E out \in {"answer", "error"} :
        IF out = "error"
        THEN /\ pc' = "raised"
             /\ exc' = [type |-> "RequestException", origin |-> "llm.chat"]
             /\ console' = console
        ELSE /\ pc' = "done"
             /\ exc' = exc
             /\ console' = Append(console, [i |-> 0, msg |-> "answer"])
    /\ UNCHANGED <<command, dry_run, raw, data, plan, proceedInput, idx, prompts,
                   toolCalls, attempted, lastResult>>
    /\ UNCHANGED toolVars

\* get_action_plan asking the model again when it got no plan
GetActionPlan_Retry ==
    /\ pc = "start"
    /\ command = "do"
    /\ \E r \in Responses, digit_limit \in BOOLEAN :
        LET g == get_action_plan(r, digit_limit)
        IN  /\ raw' = r
            /\ data' = g.data
            /\ plan' = g.plan
            /\ llmCalls' = IF g.plan.isNone THEN llmCalls \o <<"action", "action">>
                           ELSE Append(llmCalls, "action")
            /\ pc' = "planned"
            /\ exc' = exc
    /\ UNCHANGED <<command, dry_run, proceedInput, idx, prompts, toolCalls,
                   attempted, console, lastResult>>
    /\ UNCHANGED toolVars

\* main, command 'do': the call of planner.get_action_plan
GetActionPlan ==
    /\ pc = "start"
    /\ command = "do"
    /\ llmCalls' = Append(llmCalls, "action")
    /\ \/ /\ pc' = "raised"
          /\ exc' = [type |-> "RequestException", origin |-> "llm.chat"]
          /\ UNCHANGED <<raw, data, plan>>
       \/ \E r \in Responses, digit_limit \in BOOLEAN :
            LET g == get_action_plan(r, digit_limit)
            IN  /\ raw' = r
                /\ data' = g.data
                /\ plan' = g.plan
                /\ IF g.raised # "none"
                   THEN /\ pc' = "raised"
                        /\ exc' = [type |-> g.raised, origin |-> "get_action_plan"]
                   ELSE /\ pc' = "planned"
                        /\ exc' = exc
    /\ UNCHANGED <<command, dry_run, proceedInput, idx, prompts, toolCalls,
                   attempted, console, lastResult>>
    /\ UNCHANGED toolVars

\* --dry-run not looked at
MainDo_IgnoreDryRun ==
    /\ pc = "planned"
    /\ raw' = <<>>
    /\ data' = None
    /\ IF plan.isNone
       THEN /\ pc' = "exit1"
            /\ console' = Append(console, [i |-> 0, msg |-> "plan_error"])
            /\ prompts' = prompts
       ELSE /\ pc' = "confirm"
            /\ console' = console \o show_plan(plan, FALSE)
            /\ prompts' = Append(prompts, "proceed")
    /\ UNCHANGED <<command, dry_run, plan, proceedInput, idx, llmCalls, toolCalls,
                   attempted, lastResult, exc>>
    /\ UNCHANGED toolVars

\* main, command 'do', once get_action_plan returned: exit on None, show the
\* plan on --dry-run, else enter execute_plan up to its prompt
MainDo ==
    /\ pc = "planned"
    /\ raw' = <<>>
    /\ data' = None
    /\ IF plan.isNone
       THEN /\ pc' = "exit1"
            /\ console' = Append(console, [i |-> 0, msg |-> "plan_error"])
            /\ prompts' = prompts
       ELSE IF dry_run
       THEN /\ pc' = "done"
            /\ console' = console \o show_plan(plan, TRUE)
            /\ prompts' = prompts
       ELSE /\ pc' = "confirm"
            /\ console' = console \o show_plan(plan, FALSE)
            /\ prompts' = Append(prompts, "proceed")
    /\ UNCHANGED <<command, dry_run, plan, proceedInput, idx, llmCalls, toolCalls,
                   attempted, lastResult, exc>>
    /\ UNCHANGED toolVars

Next ==
    \/ AskChat
    \/ GetActionPlan
    \/ MainDo
    \/ ConfirmProceed
    \/ _exec_run_shell
    \/ _exec_read_file
    \/ _exec_write_file
    \/ _exec_find_item
    \/ _exec_summarize_file
    \/ _exec_list_directory
    \/ _exec_search_content
    \/ _exec_get_file_info
    \/ _exec_copy_file
    \/ _exec_move_file
    \/ _exec_compare_files
    \/ _exec_extract_archive
    \/ UnknownTool

Spec == Init /\ [][Next]_vars

-----------------------------------------------------------------------------
(* Properties *)

Seq1To(n) == [i \in 1..n |-> i]
Count(seq, x) == Cardinality({i \in 1..Len(seq) : seq[i] = x})
PlanHasTool(tool) == \E i \in 1..Len(plan.actions) : plan.actions[i].tool = tool

\* C1: in the 'do' flow no action is started and no tool is called unless
\* the user typed yes at 'Proceed with these actions?'; Enter alone counts
\* as no, and on a no execute_plan returns at once
C1_NoToolWithoutYes ==
    /\ proceedInput # "y" => toolCalls = <<>> /\ attempted = <<>>
    /\ proceedInput \in {"n", ""} => pc = "done"

\* a plan that would run a shell command and write a file was declined
C1_Witness ==
    /\ proceedInput \in {"n", ""}
    /\ pc = "done"
    /\ PlanHasTool("write_file")
    /\ \E i \in 1..Len(plan.actions) :
        plan.actions[i].tool = "run_shell" /\ plan.actions[i].args.command = CmdLs

\* two characters that differ at most in case
SameLetter(a, b) ==
    \/ a = b
    \/ {a, b} \in {{"m", "M"}, {"k", "K"}, {"f", "F"}, {"s", "S"}, {"r", "R"}}

\* cmd contains a deny-list entry, ignoring case
DangerousCI(cmd) ==
    \E k \in 1..Len(DANGEROUS_SUBSTRINGS) :
        \E i \in 0..(Len(cmd) - Len(DANGEROUS_SUBSTRINGS[k])) :
            \A j \in 1..Len(DANGEROUS_SUBSTRINGS[k]) :
                SameLetter(cmd[i + j], DANGEROUS_SUBSTRINGS[k][j])

\* C2: no command handed to tools.run_shell contains a deny-list entry in
\* any letter case, and every started run_shell action with such a command
\* was reported as blocked
C2_DenyListNeverReachesShell ==
    /\ \A n \in 1..Len(toolCalls) :
        toolCalls[n].tool = "run_shell" => ~DangerousCI(toolCalls[n].command)
    /\ \A n \in 1..Len(attempted) :
        LET a == plan.actions[attempted[n]]
        IN  (a.tool = "run_shell" /\ DangerousCI(a.args.command))
                => [i |-> attempted[n], msg |-> "blocked"] \in
                        {console[m] : m \in 1..Len(console)}

\* a deny-list command written with capital letters was blocked
C2_Witness ==
    \E n \in 1..Len(attempted) :
        LET a == plan.actions[attempted[n]]
        IN  /\ a.tool = "run_shell"
            /\ DangerousCI(a.args.command)
            /\ LowerStr(a.args.command) # a.args.command
            /\ toolCalls = <<>>

\* a value has the shape of a Plan: a string description and a list of
\* actions, each with a string tool name and an argument map
IsPlanShape(p) ==
    /\ p.plan \in {"str", "default"}
    /\ \A i \in 1..Len(p.actions) :
        /\ p.actions[i].tool \notin {"<absent>", "<num>"}
        /\ p.actions[i].args.kind = "obj"

\* C3: whatever text the model returns, get_action_plan returns None or a
\* Plan of the validated shape, and raises nothing
C3_PlanOrNoneNeverRaises ==
    /\ exc.origin # "get_action_plan"
    /\ plan.isNone \/ IsPlanShape(plan)

\* C4: once the user confirmed, execute_plan ends having started every
\* action of the plan exactly once, in list order
C4_EveryActionOnceInOrder ==
    (proceedInput = "y" /\ pc \in {"done", "raised"})
        => attempted = Seq1To(Len(plan.actions))

\* C5: no exception leaves execute_plan
C5_NoExceptionLeavesExecutePlan == exc.origin # "execute_plan"

\* C6: every call of a function of core/tools.py returns a dictionary with
\* ok, carrying an error text when ok is false, and raises nothing
C6_ToolsReturnResultDict ==
    /\ lastResult.raised = "none"
    /\ ~lastResult.ok => lastResult.error

\* C7: a 'do' command makes exactly one planning call, also when the
\* response did not parse or validate; no other command makes one
C7_OnePlanningCall ==
    Count(llmCalls, "action") = IF command = "do" /\ pc # "start" THEN 1 ELSE 0

\* get_action_plan returned None for a response the model did give
C7_Witness ==
    /\ pc = "planned"
    /\ plan.isNone
    /\ raw # <<>>
    /\ llmCalls = <<"action">>

\* C8: with --dry-run no prompt is asked, no action started and no tool
\* called, and the run ends with the plan shown
C8_DryRunExecutesNothing ==
    dry_run =>
        /\ prompts = <<>>
        /\ toolCalls = <<>>
        /\ attempted = <<>>
        /\ pc \in {"start", "planned", "done", "exit1", "raised"}
        /\ (pc = "done" => [i |-> 0, msg |-> "plan"] \in
                                {console[m] : m \in 1..Len(console)})

\* a dry run of a plan with a write_file and a run_shell action ended
C8_Witness ==
    /\ dry_run
    /\ pc = "done"
    /\ PlanHasTool("write_file")
    /\ PlanHasTool("run_shell")

\* C9: 'ask' makes one model call, in chat mode, and builds no plan, asks
\* no confirmation and calls no tool
C9_AskOnlyChats ==
    command = "ask" =>
        /\ plan = NonePlan
        /\ prompts = <<>>
        /\ toolCalls = <<>>
        /\ attempted = <<>>
        /\ llmCalls = IF pc = "start" THEN <<>> ELSE <<"chat">>
        /\ pc \in {"start", "done", "raised"}

\* an 'ask' command ended with its answer printed
C9_Witness ==
    /\ command = "ask"
    /\ pc = "done"
    /\ console = <<[i |-> 0, msg |-> "answer"]>>

\* C10: the value _extract_json returns is a dict or None
C10_ExtractJsonDictOrNone ==
    pc = "planned" => data.kind \in {"obj", "null"}

-----------------------------------------------------------------------------
(* Direct calls of the functions of core/tools.py.  In these specifications *)
(* main is not running; each behaviour is one call: Init draws what is on   *)
(* disk, the action draws the arguments and applies the function.           *)

MaxNameLen == 3     \* longest exhaustively enumerated query and file name

\* main is not running
MainIdle ==
    /\ command = "do"
    /\ dry_run = FALSE
    /\ pc = "tool"
    /\ raw = <<>>
    /\ data = None
    /\ plan = NonePlan
    /\ proceedInput = "unasked"
    /\ idx = 0
    /\ llmCalls = <<>>
    /\ prompts = <<>>
    /\ toolCalls = <<>>
    /\ attempted = <<>>
    /\ console = <<>>
    /\ lastResult = NoResult
    /\ exc = NoExc

-----------------------------------------------------------------------------
(* _fuzzy_match_score.  A score is the exact fraction n/d of the float the  *)
(* code computes.                                                           *)

Rat(n, d) == [n |-> n, d |-> d]
RatLeq(x, y) == x.n * y.d <= y.n * x.d
RatLess(x, y) == x.n * y.d < y.n * x.d
RatMax(x, y) == IF RatLeq(y, x) THEN x ELSE y

\* str.startswith
StartsWith(text, prefix) ==
    /\ Len(prefix) <= Len(text)
    /\ \A j \in 1..Len(prefix) : text[j] = prefix[j]

\* str.rfind("."), 1-based; 0 when absent
RFindDot(name) ==
    LET hits == {i \in 1..Len(name) : name[i] = "."}
    IN  IF hits = {} THEN 0 ELSE CHOOSE i \in hits : \A j \in hits : j <= i

\* Path(target).stem: the name up to its last dot, unless that dot is the
\* first or the last character; Path(".") has an empty name
PathStem(target) ==
    LET i == RFindDot(target)
    IN  IF target = <<".">> THEN <<>>
        ELSE IF 1 < i /\ i < Len(target) THEN SubSeq(target, 1, i - 1)
        ELSE target

\* a[i..i+k-1] = b[j..j+k-1]
BlockAt(a, b, i, j, k) ==
    /\ i + k - 1 <= Len(a)
    /\ j + k - 1 <= Len(b)
    /\ \A t \in 0..(k - 1) : a[i + t] = b[j + t]

\* the common blocks of a and b, as <<i, j, k>>
Blocks(a, b) ==
    {m \in (1..Len(a)) \X (1..Len(b)) \X (1..Len(a)) : BlockAt(a, b, m[1], m[2], m[3])}

\* find_longest_match prefers block m to block o: the longer one, then the
\* one starting earlier in a, then the one starting earlier in b
Preferred(m, o) ==
    \/ m[3] > o[3]
    \/ m[3] = o[3] /\ m[1] < o[1]
    \/ m[3] = o[3] /\ m[1] = o[1] /\ m[2] <= o[2]

Longest(blocks) == CHOOSE m \in blocks : \A o \in blocks : Preferred(m, o)

\* SequenceMatcher.find_longest_match without junk, for sequences with a
\* common element
LongestMatch(a, b) == Longest(Blocks(a, b))

RECURSIVE Matches(_, _)

\* the size of block m and of the blocks matched left and right of it
MatchesAround(a, b, m) ==
    m[3] + Matches(SubSeq(a, 1, m[1] - 1), SubSeq(b, 1, m[2] - 1))
         + Matches(SubSeq(a, m[1] + m[3], Len(a)), SubSeq(b, m[2] + m[3], Len(b)))

\* SequenceMatcher.get_matching_blocks: the total size of the blocks found
\* by matching the longest block, then what is left and right of it
Matches(a, b) ==
    IF \E i \in 1..Len(a), j \in 1..Len(b) : a[i] = b[j]
    THEN MatchesAround(a, b, LongestMatch(a, b))
    ELSE 0

\* SequenceMatcher(None, a, b).ratio()
Ratio(a, b) ==
    IF Len(a) + Len(b) = 0 THEN Rat(1, 1)
    ELSE Rat(2 * Matches(a, b), Len(a) + Len(b))

\* ratio * 1.05
Boost(ratio) == Rat(ratio.n * 105, ratio.d * 100)

_fuzzy_match_score(query, target) ==
    LET query_lower == LowerStr(query)
        target_lower == LowerStr(target)
        query_has_ext == Contains(query, <<".">>) /\ query[Len(query)] # "."
        target_stem == LowerStr(PathStem(target))
        full_ratio == Ratio(query_lower, target_lower)
        stem_ratio == Ratio(query_lower, target_stem)
    IN  IF query_lower = target_lower THEN Rat(100, 100)
        ELSE IF Contains(target_lower, query_lower)
        THEN IF StartsWith(target_lower, query_lower) THEN Rat(95, 100) ELSE Rat(85, 100)
        ELSE IF ~query_has_ext /\ query_lower = target_stem THEN Rat(90, 100)
        ELSE IF ~query_has_ext /\ Contains(target_stem, query_lower)
        THEN IF StartsWith(target_stem, query_lower) THEN Rat(80, 100) ELSE Rat(70, 100)
        ELSE RatMax(full_ratio, Boost(stem_ratio))

\* every string of up to MaxNameLen characters over these characters, and a
\* long name with its one-letter-short spelling
NameChars == {"s", "S", "m", "."}
NameTypo == <<"f", "i", "n", "a", "l", "_", "r", "e", "p", "o", "t">>
NameLong == <<"f", "i", "n", "a", "l", "_", "r", "e", "p", "o", "r", "t", ".", "m", "d">>
FuzzyStrings == SeqsUpTo(NameChars, MaxNameLen) \cup {NameTypo, NameLong}

InitFuzzy ==
    /\ MainIdle
    /\ fs = NoDisk
    /\ call = NoCall
    /\ ret = NoReturn
    /\ fsAfter = NoDisk

CallFuzzyMatchScore ==
    /\ call = NoCall
    /\ \E q \in FuzzyStrings, t \in FuzzyStrings :
        /\ call' = [fn |-> "_fuzzy_match_score", query |-> q, target |-> t]
        /\ ret' = [ok |-> TRUE, fn |-> "_fuzzy_match_score",
                   score |-> _fuzzy_match_score(q, t)]
    /\ UNCHANGED <<fs, fsAfter>>
    /\ UNCHANGED mainVars

NextFuzzy == CallFuzzyMatchScore

SpecFuzzy == InitFuzzy /\ [][NextFuzzy]_vars

\* C11: the score of every query and target is between 0 and 1, and is 1
\* when the two are equal up to letter case
C11_ScoreBetween0And1 ==
    call.fn = "_fuzzy_match_score" =>
        /\ RatLeq(Rat(0, 1), ret.score)
        /\ RatLeq(ret.score, Rat(1, 1))
        /\ (Len(call.query) = Len(call.target)
            /\ \A i \in 1..Len(call.query) : SameLetter(call.query[i], call.target[i]))
                => (ret.score.n = ret.score.d)

-----------------------------------------------------------------------------
(* find_item and summarize_file over a directory tree.  A root's listing is *)
(* what root.rglob("*") yields, in its order; a path is its root and its    *)
(* position in the listing.                                                 *)

MaxEntries == 6     \* longest listing of the current working directory
MaxResultsArg == 2  \* largest max_results argument of a direct find_item call

Entry(name, is_dir) == [name |-> name, is_dir |-> is_dir]

NameNotes == <<"n", "o", "t", "e", "s">>
NameNotesTxt == <<"n", "o", "t", "e", "s", ".", "t", "x", "t">>
NameTodoBin == <<"t", "o", "d", "o", ".", "b", "i", "n">>
EntryPool == {Entry(NameNotes, TRUE), Entry(NameNotesTxt, FALSE), Entry(NameTodoBin, FALSE)}

HomeSubs == <<"Downloads", "Documents", "Desktop">>

Disk(cwd, exists, work, documents) ==
    [kind |-> "tree", cwd |-> cwd, exists |-> exists,
     listing |-> [r \in {"work", "Downloads", "Documents", "Desktop"} |->
                    IF r = "work" THEN work
                    ELSE IF r = "Documents" THEN documents
                    ELSE <<>>]]

\* the process runs in a work directory outside the home folders, or in
\* ~/Documents itself
FindDisks ==
    {Disk("work", {}, l, <<>>) : l \in SeqsUpTo(EntryPool, MaxEntries)}
    \cup {Disk("work", {"Documents"}, l, <<Entry(NameNotesTxt, FALSE)>>) :
            l \in SeqsUpTo(EntryPool, MaxEntries)}
    \cup {Disk("work", {"Downloads", "Documents"}, l, <<Entry(NameNotes, TRUE)>>) :
            l \in SeqsUpTo(EntryPool, MaxEntries)}
    \cup {Disk("Documents", {"Documents"}, <<>>, l) : l \in SeqsUpTo(EntryPool, MaxEntries)}

FindNames ==
    {<<" ", "n", "o", "t", "e", "s">>, NameNotesTxt, <<"t", "o", "d", "o">>, <<" ">>}

RECURSIVE LStripName(_)
LStripName(s) == IF s # <<>> /\ s[1] = " " THEN LStripName(Tail(s)) ELSE s

RECURSIVE RStripName(_)
RStripName(s) ==
    IF s # <<>> /\ s[Len(s)] = " " THEN RStripName(SubSeq(s, 1, Len(s) - 1)) ELSE s

\* name.strip()
StripName(s) == RStripName(LStripName(s))

\* the scores find_item computes, tabulated
ScoreTable ==
    [q \in {StripName(n) : n \in FindNames}, t \in {e.name : e \in EntryPool} |->
        _fuzzy_match_score(q, t)]

RECURSIVE Dedup(_, _)
Dedup(roots, seen) ==
    IF roots = <<>> THEN <<>>
    ELSE IF Head(roots) \in seen THEN Dedup(Tail(roots), seen)
    ELSE <<Head(roots)>> \o Dedup(Tail(roots), seen \cup {Head(roots)})

\* the roots find_item searches: the working directory, then the home
\* folders that exist, each resolved, without repetitions
FindRoots(disk) ==
    LET roots == <<disk.cwd>> \o SelectSeq(HomeSubs, LAMBDA sub : sub \in disk.exists)
    IN  Dedup(roots, {})

\* the entries of one root that meet the threshold, in rglob order
RootCandidates(query, fuzzy_threshold, root, listing) ==
    LET all == [i \in 1..Len(listing) |->
                  [path |-> <<root, i>>, name |-> listing[i].name, root |-> root,
                   is_dir |-> listing[i].is_dir,
                   match_score |-> ScoreTable[query, listing[i].name]]]
    IN  SelectSeq(all, LAMBDA c : RatLeq(fuzzy_threshold, c.match_score))

RECURSIVE Candidates(_, _, _, _)
Candidates(query, fuzzy_threshold, roots, disk) ==
    IF roots = <<>> THEN <<>>
    ELSE RootCandidates(query, fuzzy_threshold, Head(roots), disk.listing[Head(roots)])
         \o Candidates(query, fuzzy_threshold, Tail(roots), disk)

RECURSIVE InsertByScore(_, _)
InsertByScore(sorted, c) ==
    IF sorted = <<>> THEN <<c>>
    ELSE IF RatLess(Head(sorted).match_score, c.match_score) THEN <<c>> \o sorted
    ELSE <<Head(sorted)>> \o InsertByScore(Tail(sorted), c)

\* the candidates left in the order they were found
SortByScore_KeepOrder(candidates) == candidates

\* candidates.sort(key=match_score, reverse=True): stable, best first
RECURSIVE SortByScore(_)
SortByScore(candidates) ==
    IF candidates = <<>> THEN <<>>
    ELSE InsertByScore(SortByScore(SubSeq(candidates, 1, Len(candidates) - 1)),
                       candidates[Len(candidates)])

\* candidates[:max_results] for max_results >= 0
Limit(candidates, max_results) ==
    SubSeq(candidates, 1, IF max_results < Len(candidates) THEN max_results
                          ELSE Len(candidates))

FindItem(name, max_results, fuzzy_threshold, disk) ==
    LET query == StripName(name)
        roots == FindRoots(disk)
        candidates == Candidates(query, fuzzy_threshold, roots, disk)
    IN  IF query = <<>>
        THEN [ok |-> FALSE, fn |-> "find_item", error |-> "empty name for find_item"]
        ELSE [ok |-> TRUE, fn |-> "find_item", query |-> query, roots |-> roots,
              results |-> Limit(SortByScore(candidates), max_results),
              fuzzy_threshold |-> fuzzy_threshold]

\* Path(file_path).suffix
PathSuffix(name) ==
    LET i == RFindDot(name)
    IN  IF 1 < i /\ i < Len(name) THEN SubSeq(name, i, Len(name)) ELSE <<>>

text_extensions ==
    {
     <<".", "t", "x", "t">>,
     <<".", "m", "d">>,
     <<".", "p", "y">>,
     <<".", "j", "s">>,
     <<".", "j", "s", "x">>,
     <<".", "t", "s">>,
     <<".", "t", "s", "x">>,
     <<".", "j", "s", "o", "n">>,
     <<".", "x", "m", "l">>,
     <<".", "h", "t", "m", "l">>,
     <<".", "c", "s", "s">>,
     <<".", "s", "c", "s", "s">>,
     <<".", "y", "a", "m", "l">>,
     <<".", "y", "m", "l">>,
     <<".", "t", "o", "m", "l">>,
     <<".", "i", "n", "i">>,
     <<".", "c", "f", "g">>,
     <<".", "c", "o", "n", "f">>,
     <<".", "s", "h">>,
     <<".", "b", "a", "s", "h">>,
     <<".", "z", "s", "h">>,
     <<".", "f", "i", "s", "h">>,
     <<".", "j", "a", "v", "a">>,
     <<".", "c">>,
     <<".", "c", "p", "p">>,
     <<".", "h">>,
     <<".", "h", "p", "p">>,
     <<".", "r", "s">>,
     <<".", "g", "o">>,
     <<".", "r", "b">>,
     <<".", "p", "h", "p">>,
     <<".", "s", "w", "i", "f", "t">>,
     <<".", "k", "t">>,
     <<".", "r">>,
     <<".", "s", "q", "l">>,
     <<".", "l", "o", "g">>,
     <<".", "c", "s", "v">>,
     <<".", "r", "s", "t">>,
     <<".", "t", "e", "x">>
    }

\* summarize_file from the result of its find_item call on; the files of a
\* listing are readable text, none is a PDF
SummarizeFound(name, find_result) ==
    LET results == find_result.results
        files == SelectSeq(results, LAMBDA r : ~r.is_dir)
        best_match == files[1]
        file_ext == LowerStr(PathSuffix(best_match.name))
    IN  IF ~find_result.ok
        THEN [ok |-> FALSE, fn |-> "summarize_file", error |-> find_result.error]
        ELSE IF results = <<>>
        THEN [ok |-> FALSE, fn |-> "summarize_file", error |-> "No files found"]
        ELSE IF files = <<>>
        THEN [ok |-> FALSE, fn |-> "summarize_file", error |-> "all were directories",
              found |-> Len(results)]
        ELSE IF file_ext # <<>> /\ file_ext \notin text_extensions
        THEN [ok |-> FALSE, fn |-> "summarize_file", error |-> "may not be a text file",
              file_path |-> best_match.path]
        ELSE [ok |-> TRUE, fn |-> "summarize_file", query |-> name,
              file_path |-> best_match.path, match_score |-> best_match.match_score,
              multiple_matches |-> Len(files) > 1, match_count |-> Len(files)]

SummarizeFile(name, disk) == SummarizeFound(name, FindItem(name, 5, Rat(6, 10), disk))

InitFind ==
    /\ MainIdle
    /\ fs \in FindDisks
    /\ call = NoCall
    /\ ret = NoReturn
    /\ fsAfter = NoDisk

CallFindItem ==
    /\ call = NoCall
    /\ \E name \in FindNames, max_results \in 0..MaxResultsArg,
          fuzzy_threshold \in {Rat(6, 10), Rat(9, 10)} :
        /\ call' = [fn |-> "find_item", name |-> name, max_results |-> max_results,
                    fuzzy_threshold |-> fuzzy_threshold]
        /\ ret' = FindItem(name, max_results, fuzzy_threshold, fs)
    /\ fsAfter' = fs
    /\ UNCHANGED fs
    /\ UNCHANGED mainVars

CallSummarizeFile ==
    /\ call = NoCall
    /\ \E name \in FindNames :
        /\ call' = [fn |-> "summarize_file", name |-> name]
        /\ ret' = SummarizeFile(name, fs)
    /\ fsAfter' = fs
    /\ UNCHANGED fs
    /\ UNCHANGED mainVars

NextFind ==
    \/ CallFindItem
    \/ CallSummarizeFile

SpecFind == InitFind /\ [][NextFind]_vars

\* C12: the results of find_item for a non-empty name and max_results >= 0
\* are in non-increasing order of match_score, each at or above
\* fuzzy_threshold, and at most max_results many
C12_FindResultsSortedAboveThresholdLimited ==
    (call.fn = "find_item" /\ call.name # <<>>) =>
        /\ ret.ok <=> StripName(call.name) # <<>>
        /\ ret.ok =>
            /\ \A i \in 1..(Len(ret.results) - 1) :
                 RatLeq(ret.results[i + 1].match_score, ret.results[i].match_score)
            /\ \A i \in 1..Len(ret.results) :
                 RatLeq(call.fuzzy_threshold, ret.results[i].match_score)
            /\ Len(ret.results) <= call.max_results

\* a call that had to reorder, drop an entry below the threshold and cut
\* the list
C12_Witness ==
    /\ call.fn = "find_item"
    /\ ret.ok
    /\ Len(ret.results) = 2
    /\ call.max_results = 2
    /\ RatLess(ret.results[2].match_score, ret.results[1].match_score)
    /\ ret.results[1].root = ret.results[2].root
    /\ ret.results[1].path[2] > ret.results[2].path[2]
    /\ \E i \in 1..Len(fs.listing[fs.cwd]) :
         RatLess(ScoreTable[ret.query, fs.listing[fs.cwd][i].name], call.fuzzy_threshold)
    /\ \E i \in 1..Len(fs.listing[fs.cwd]) :
         /\ RatLeq(call.fuzzy_threshold, ScoreTable[ret.query, fs.listing[fs.cwd][i].name])
         /\ \A k \in 1..2 : ret.results[k].path # <<fs.cwd, i>>

\* the entries of a root that score at or above the threshold
Meets(disk, root, query, fuzzy_threshold) ==
    {i \in 1..Len(disk.listing[root]) :
        RatLeq(fuzzy_threshold, ScoreTable[query, disk.listing[root][i].name])}

\* C13: when the search from the current working directory finds a match,
\* no result of find_item comes from a home folder root
C13_HomeFoldersOnlyIfNothingFound ==
    (call.fn = "find_item" /\ ret.ok
        /\ Meets(fs, fs.cwd, ret.query, call.fuzzy_threshold) # {}) =>
            \A k \in 1..Len(ret.results) : ret.results[k].root = fs.cwd

\* the files of the searched roots that score at or above 0.6
MatchingFiles(disk, query) ==
    {p \in UNION {{<<FindRoots(disk)[r], i>> :
                     i \in Meets(disk, FindRoots(disk)[r], query, Rat(6, 10))} :
                  r \in 1..Len(FindRoots(disk))} :
        ~disk.listing[p[1]][p[2]].is_dir}

\* C14: when a file scores at or above 0.6, summarize_file selects a file of
\* the highest score among them; it reports that no files were found or
\* that all matches were directories only when no file scores that high
C14_SummarizeUsesBestFile ==
    (call.fn = "summarize_file" /\ StripName(call.name) # <<>>) =>
        LET files == MatchingFiles(fs, StripName(call.name))
            ScoreOf(p) == ScoreTable[StripName(call.name), fs.listing[p[1]][p[2]].name]
        IN  /\ files # {} =>
                /\ "file_path" \in DOMAIN ret
                /\ ret.file_path \in files
                /\ \A p \in files : RatLeq(ScoreOf(p), ScoreOf(ret.file_path))
            /\ (~ret.ok /\ ret.error \in {"No files found", "all were directories"})
                => files = {}

-----------------------------------------------------------------------------
(* read_file, write_file, copy_file and move_file over a directory tree.    *)
(* A path is the sequence of its names below the current working directory, *)
(* <<>> being that directory; a file holds bytes.                           *)

MaxBytes == 2       \* longest content of a file on disk before the call

Names == {"a", "d"}
Bytes == {"a", "C3", "A9"}      \* the letter a, and the two bytes of e-acute
Chars == {"a", "e-acute"}

NoNode == [t |-> "none", data |-> <<>>]
DirNode == [t |-> "dir", data |-> <<>>]
FileNode(bytes) == [t |-> "file", data |-> bytes]

AllPaths == SeqsUpTo(Names, 3) \ {<<>>}

\* the tree with a at the top and a inside d, everything else missing
Tree(a, d, da) ==
    [kind |-> "files",
     node |-> [p \in AllPaths |->
                 IF p = <<"a">> THEN a
                 ELSE IF p = <<"d">> THEN d
                 ELSE IF p = <<"d", "a">> THEN da
                 ELSE NoNode]]

FileContents == SeqsUpTo(Bytes, MaxBytes)
TopNodes == {NoNode, DirNode} \cup {FileNode(c) : c \in FileContents}

FileDisks ==
    {Tree(a, d, NoNode) : a \in TopNodes, d \in TopNodes \ {DirNode}}
    \cup {Tree(a, DirNode, da) : a \in TopNodes, da \in TopNodes}

NodeAt(disk, p) ==
    IF p = <<>> THEN DirNode
    ELSE IF p \in DOMAIN disk.node THEN disk.node[p]
    ELSE NoNode

\* Path.exists, Path.is_dir, Path.is_file
Exists(disk, p) == NodeAt(disk, p).t # "none"
IsDir(disk, p) == NodeAt(disk, p).t = "dir"
IsFile(disk, p) == NodeAt(disk, p).t = "file"

\* Path.parent, Path.name
Parent(p) == IF p = <<>> THEN <<>> ELSE SubSeq(p, 1, Len(p) - 1)
BaseName(p) == IF p = <<>> THEN <<>> ELSE <<p[Len(p)]>>

\* a name on the way to p, p included, is a regular file
ThroughFile(disk, p) == \E k \in 1..Len(p) : IsFile(disk, SubSeq(p, 1, k))

\* Path.mkdir(parents=True, exist_ok=True), when it does not raise
Mkdirs(disk, p) ==
    [disk EXCEPT !.node = [q \in AllPaths |->
        IF Len(q) <= Len(p) /\ q = SubSeq(p, 1, Len(q)) THEN DirNode ELSE disk.node[q]]]

PutFile(disk, p, bytes) == [disk EXCEPT !.node[p] = FileNode(bytes)]
Remove(disk, p) == [disk EXCEPT !.node[p] = NoNode]

\* the words _normalize_path maps to a folder of the home directory
FolderNames == {"downloads", "download", "documents", "document", "desktop", "home"}

\* _normalize_path on the parts of a path in lower case: from the first
\* part that names a home folder on, the path lies below the home directory;
\* otherwise it is resolved against the working directory
_normalize_path(parts) ==
    LET hits == {i \in 1..Len(parts) : parts[i] \in FolderNames}
        first == CHOOSE i \in hits : \A j \in hits : i <= j
    IN  IF hits # {}
        THEN <<"~", parts[first]>> \o SubSeq(parts, first + 1, Len(parts))
        ELSE SelectSeq(parts, LAMBDA part : part # ".")

PathArgs == (SeqsUpTo(Names, 2) \ {<<>>}) \cup {<<".">>, <<".", "a">>}

\* str.encode("utf-8")
RECURSIVE Encode(_)
Encode(text) ==
    IF text = <<>> THEN <<>>
    ELSE (IF Head(text) = "a" THEN <<"a">> ELSE <<"C3", "A9">>) \o Encode(Tail(text))

\* bytes.decode("utf-8", errors="replace")
RECURSIVE Decode(_)
Decode(bytes) ==
    IF bytes = <<>> THEN <<>>
    ELSE IF bytes[1] = "a" THEN <<"a">> \o Decode(Tail(bytes))
    ELSE IF bytes[1] = "C3" /\ Len(bytes) >= 2 /\ bytes[2] = "A9"
    THEN <<"e-acute">> \o Decode(SubSeq(bytes, 3, Len(bytes)))
    ELSE <<"U+FFFD">> \o Decode(Tail(bytes))

\* what a tool returns and the disk it leaves
Outcome(result, disk) == [ret |-> result, disk |-> disk]
Failed(fn, error, disk) == Outcome([ok |-> FALSE, fn |-> fn, error |-> error], disk)

\* the whole file, whatever max_bytes is
Snippet_All(bytes, max_bytes) == bytes

\* data[:max_bytes] for max_bytes >= 0
Snippet(bytes, max_bytes) ==
    SubSeq(bytes, 1, IF max_bytes < Len(bytes) THEN max_bytes ELSE Len(bytes))

ReadPath(p, max_bytes, disk) ==
    IF ThroughFile(disk, Parent(p)) THEN Failed("read_file", "Not a directory", disk)
    ELSE IF ~Exists(disk, p) THEN Failed("read_file", "file not found", disk)
    ELSE IF IsDir(disk, p) THEN Failed("read_file", "Is a directory", disk)
    ELSE Outcome([ok |-> TRUE, fn |-> "read_file", path |-> p,
                  content |-> Decode(Snippet(NodeAt(disk, p).data, max_bytes)),
                  truncated |-> Len(NodeAt(disk, p).data) > max_bytes], disk)

ReadFile(path, max_bytes, disk) == ReadPath(_normalize_path(path), max_bytes, disk)

\* every write replaces the content
Written_Truncate(before, text, file_mode) == Encode(text)

\* f.write(text) on a file opened with "a" or "w"
Written(before, text, file_mode) ==
    IF file_mode = "a" THEN before \o Encode(text) ELSE Encode(text)

\* write_file once the parent directory is there
WriteOpen(p, text, mode, disk) ==
    IF ThroughFile(disk, Parent(p)) THEN Failed("write_file", "Not a directory", disk)
    ELSE IF IsDir(disk, p) THEN Failed("write_file", "Is a directory", disk)
    ELSE Outcome([ok |-> TRUE, fn |-> "write_file", path |-> p,
                  mode |-> IF mode = "append" THEN "append" ELSE "overwrite",
                  existed_before |-> Exists(disk, p),
                  bytes_before |-> Len(NodeAt(disk, p).data),
                  bytes_after |-> Len(Written(NodeAt(disk, p).data, text,
                                              IF mode = "append" THEN "a" ELSE "w"))],
                 PutFile(disk, p, Written(NodeAt(disk, p).data, text,
                                          IF mode = "append" THEN "a" ELSE "w")))

WritePath(p, text, mode, disk) ==
    IF Exists(disk, Parent(p)) THEN WriteOpen(p, text, mode, disk)
    ELSE IF ThroughFile(disk, Parent(p))
    THEN Failed("write_file", "could not create parent directory", disk)
    ELSE WriteOpen(p, text, mode, Mkdirs(disk, Parent(p)))

WriteFile(path, content, mode, disk) == WritePath(_normalize_path(path), content, mode, disk)

\* dst / src.name when dst is an existing directory
IntoDir(src, dst, disk) == IF IsDir(disk, dst) THEN dst \o BaseName(src) ELSE dst

\* copy_file without the test of the destination
CopyTo_Overwrite(src, dst, disk) ==
    IF ThroughFile(disk, Parent(dst)) \/ IsDir(disk, dst)
    THEN Failed("copy_file", "Error copying file", disk)
    ELSE Outcome([ok |-> TRUE, fn |-> "copy_file", source |-> src, destination |-> dst,
                  size |-> Len(NodeAt(disk, src).data)],
                 PutFile(Mkdirs(disk, Parent(dst)), dst, NodeAt(disk, src).data))

\* copy_file from the test of the destination on
CopyTo(src, dst, disk) ==
    IF Exists(disk, dst) THEN Failed("copy_file", "Destination already exists", disk)
    ELSE IF ThroughFile(disk, Parent(dst)) THEN Failed("copy_file", "Error copying file", disk)
    ELSE Outcome([ok |-> TRUE, fn |-> "copy_file", source |-> src, destination |-> dst,
                  size |-> Len(NodeAt(disk, src).data)],
                 PutFile(Mkdirs(disk, Parent(dst)), dst, NodeAt(disk, src).data))

CopyPath(src, dst, disk) ==
    IF ~Exists(disk, src) THEN Failed("copy_file", "Source file not found", disk)
    ELSE IF IsDir(disk, src) THEN Failed("copy_file", "Source is a directory", disk)
    ELSE CopyTo(src, IntoDir(src, dst, disk), disk)

CopyFile(source, destination, disk) ==
    CopyPath(_normalize_path(source), _normalize_path(destination), disk)

\* os.rename of a file
Rename(src, dst, disk) ==
    IF src = dst THEN disk ELSE Remove(PutFile(disk, dst, NodeAt(disk, src).data), src)

\* shutil.move(src, dst) of a file, reported as a move to `reported`: a
\* destination that is a directory takes the file under its own name and
\* must not hold that name yet
ShutilMove(src, dst, reported, disk) ==
    IF IsDir(disk, dst) /\ Exists(disk, dst \o BaseName(src))
    THEN Failed("move_file", "Error moving file", disk)
    ELSE Outcome([ok |-> TRUE, fn |-> "move_file", source |-> src, destination |-> reported,
                  operation |-> IF Parent(src) = Parent(reported) THEN "renamed" ELSE "moved"],
                 Rename(src, IntoDir(src, dst, disk), disk))

\* move_file from the creation of the parent directory on
MoveTo(src, dst, disk) ==
    IF ThroughFile(disk, Parent(dst)) THEN Failed("move_file", "Error moving file", disk)
    ELSE ShutilMove(src, dst, dst, Mkdirs(disk, Parent(dst)))

MovePath(src, dst, disk) ==
    IF ~Exists(disk, src) THEN Failed("move_file", "Source file not found", disk)
    ELSE IF IsDir(disk, src) THEN Failed("move_file", "Source is a directory", disk)
    ELSE MoveTo(src, IntoDir(src, dst, disk), disk)

MoveFile(source, destination, disk) ==
    MovePath(_normalize_path(source), _normalize_path(destination), disk)

Modes == {"overwrite", "append", "Append"}

InitFiles ==
    /\ MainIdle
    /\ fs \in FileDisks
    /\ call = NoCall
    /\ ret = NoReturn
    /\ fsAfter = NoDisk

\* the call returns: its result and the disk it leaves
Returns(outcome) ==
    /\ ret' = outcome.ret
    /\ fsAfter' = outcome.disk
    /\ UNCHANGED fs
    /\ UNCHANGED mainVars

CallReadFile ==
    /\ call = NoCall
    /\ \E path \in PathArgs, max_bytes \in 0..(MaxBytes + 1) :
        /\ call' = [fn |-> "read_file", path |-> path, max_bytes |-> max_bytes]
        /\ Returns(ReadFile(path, max_bytes, fs))

CallWriteFile ==
    /\ call = NoCall
    /\ \E path \in PathArgs, content \in SeqsUpTo(Chars, 1), mode \in Modes :
        /\ call' = [fn |-> "write_file", path |-> path, content |-> content, mode |-> mode]
        /\ Returns(WriteFile(path, content, mode, fs))

CallCopyFile ==
    /\ call = NoCall
    /\ \E source \in PathArgs, destination \in PathArgs :
        /\ call' = [fn |-> "copy_file", source |-> source, destination |-> destination]
        /\ Returns(CopyFile(source, destination, fs))

CallMoveFile ==
    /\ call = NoCall
    /\ \E source \in PathArgs, destination \in PathArgs :
        /\ call' = [fn |-> "move_file", source |-> source, destination |-> destination]
        /\ Returns(MoveFile(source, destination, fs))

NextFiles ==
    \/ CallReadFile
    \/ CallWriteFile
    \/ CallCopyFile
    \/ CallMoveFile

SpecFiles == InitFiles /\ [][NextFiles]_vars

\* C15: copy_file refuses a destination that exists, once a directory
\* destination is resolved to directory/source-name, and then changes
\* nothing; when it succeeds the source is as before and the destination
\* holds the same bytes
C15_CopyNeverOverwrites ==
    call.fn = "copy_file" =>
        LET src == _normalize_path(call.source)
            dst == IntoDir(src, _normalize_path(call.destination), fs)
        IN  /\ Exists(fs, dst) => (~ret.ok /\ fsAfter = fs)
            /\ ret.ok =>
                /\ IsFile(fs, src)
                /\ ret.destination = dst
                /\ NodeAt(fsAfter, src) = NodeAt(fs, src)
                /\ NodeAt(fsAfter, dst) = NodeAt(fs, src)
                /\ \A q \in AllPaths : Exists(fs, q) => NodeAt(fsAfter, q) = NodeAt(fs, q)

\* a copy into a directory that already holds another file of that name
C15_Witness ==
    /\ call.fn = "copy_file"
    /\ ~ret.ok
    /\ IsFile(fs, _normalize_path(call.source))
    /\ IsDir(fs, _normalize_path(call.destination))
    /\ IsFile(fs, _normalize_path(call.destination) \o BaseName(_normalize_path(call.source)))
    /\ NodeAt(fs, _normalize_path(call.destination) \o BaseName(_normalize_path(call.source)))
         # NodeAt(fs, _normalize_path(call.source))
    /\ fsAfter = fs

\* C16: write_file with mode 'append' keeps the bytes of the file and adds
\* the new content at the end, creating the file if it is missing; with any
\* other mode the file holds the new content only and the mode reported is
\* 'overwrite'; missing parent directories are created
C16_WriteAppendsOrReplaces ==
    call.fn = "write_file" =>
        LET p == _normalize_path(call.path)
            before == NodeAt(fs, p).data
        IN  /\ ret.ok <=> (~ThroughFile(fs, Parent(p)) /\ ~IsDir(fs, p))
            /\ ret.ok =>
                /\ \A k \in 0..(Len(p) - 1) : IsDir(fsAfter, SubSeq(p, 1, k))
                /\ call.mode = "append" =>
                    /\ NodeAt(fsAfter, p) = FileNode(before \o Encode(call.content))
                    /\ ret.mode = "append"
                /\ call.mode # "append" =>
                    /\ NodeAt(fsAfter, p) = FileNode(Encode(call.content))
                    /\ ret.mode = "overwrite"

\* an append of text to a file that holds bytes
C16_Witness ==
    /\ call.fn = "write_file"
    /\ call.mode = "append"
    /\ call.content # <<>>
    /\ ret.ok
    /\ ret.bytes_before > 0
    /\ ret.bytes_after > ret.bytes_before

\* C17: when move_file returns ok = true, the bytes of the source are at the
\* reported destination, which lies inside the destination under the
\* source's name when the destination is an existing directory, and nothing
\* is left at the source path
C17_MoveLeavesNoCopy ==
    (call.fn = "move_file" /\ ret.ok) =>
        LET src == _normalize_path(call.source)
            dst == _normalize_path(call.destination)
        IN  /\ NodeAt(fsAfter, ret.destination) = NodeAt(fs, src)
            /\ IsFile(fsAfter, ret.destination)
            /\ IsDir(fs, dst) => ret.destination = dst \o BaseName(src)
            /\ ~Exists(fsAfter, src)

\* C19 as stated: read_file returns the decoding of the first max_bytes
\* bytes, truncated tells whether the file holds more, and a path at which
\* there is no file yields ok = false with 'file not found'
C19_ReadFileMissingIsNotFound ==
    call.fn = "read_file" =>
        LET p == _normalize_path(call.path)
        IN  /\ ret.ok =>
                /\ ret.content = Decode(SubSeq(NodeAt(fs, p).data, 1,
                                     IF call.max_bytes < Len(NodeAt(fs, p).data)
                                     THEN call.max_bytes ELSE Len(NodeAt(fs, p).data)))
                /\ ret.truncated <=> Len(NodeAt(fs, p).data) > call.max_bytes
            /\ ~Exists(fs, p) => (~ret.ok /\ ret.error = "file not found")

\* C19, amended: read_file returns the decoding of the first max_bytes
\* bytes, truncated tells whether the file holds more, and a missing file
\* yields ok = false, with 'file not found' unless the path leads through a
\* regular file, which yields another error
C19_ReadFirstBytes ==
    call.fn = "read_file" =>
        LET p == _normalize_path(call.path)
        IN  /\ ret.ok <=> IsFile(fs, p)
            /\ ret.ok =>
                /\ ret.content = Decode(SubSeq(NodeAt(fs, p).data, 1,
                                     IF call.max_bytes < Len(NodeAt(fs, p).data)
                                     THEN call.max_bytes ELSE Len(NodeAt(fs, p).data)))
                /\ Len(ret.content) <= call.max_bytes
                /\ ret.truncated <=> Len(NodeAt(fs, p).data) > call.max_bytes
            /\ ~Exists(fs, p) =>
                (ret.error = "file not found" <=> ~ThroughFile(fs, Parent(p)))
            /\ fsAfter = fs

\* a read that cuts a file in the middle of a character
C19_Witness ==
    /\ call.fn = "read_file"
    /\ ret.ok
    /\ ret.truncated
    /\ call.max_bytes > 0
    /\ \E i \in 1..Len(ret.content) : ret.content[i] = "U+FFFD"
    /\ \A i \in 1..Len(Decode(NodeAt(fs, _normalize_path(call.path)).data)) :
         Decode(NodeAt(fs, _normalize_path(call.path)).data)[i] # "U+FFFD"

-----------------------------------------------------------------------------
(* search_content over a directory: its entries are what p.glob("**/*")     *)
(* yields, in its order; a file is the sequence of its lines, each without  *)
(* its line end.  No file_pattern is given; the files are small and         *)
(* readable.                                                                *)

MaxFiles == 2           \* most entries below the directory searched
MaxLines == 2           \* most lines of a file
MaxSearchResults == 3   \* largest max_results argument

LineChars == {"s", "S", " "}
Lines == SeqsUpTo(LineChars, 1)
SearchEntries ==
    {[is_file |-> FALSE, lines |-> <<>>]}
    \cup {[is_file |-> TRUE, lines |-> l] : l \in SeqsUpTo(Lines, MaxLines)}

SearchDisks ==
    {[kind |-> "search", root |-> "dir", entries |-> e] : e \in SeqsUpTo(SearchEntries, MaxFiles)}
    \cup {[kind |-> "search", root |-> k, entries |-> <<>>] : k \in {"none", "file"}}

Match(file, line_num, line) ==
    [file |-> file, line_number |-> line_num, line_content |-> RStripName(line)]

\* the line holds the query
LineMatches(line, query, case_sensitive) ==
    IF case_sensitive THEN Contains(line, query)
    ELSE Contains(LowerStr(line), LowerStr(query))

\* if len(results) >= max_results: break
LimitReached(results, max_results) == Len(results) >= max_results

RECURSIVE ScanLines(_, _, _, _, _, _, _)

\* after a matching line: stop at the limit or read on
AfterMatch(file, lines, line_num, results, query, case_sensitive, max_results) ==
    IF LimitReached(results, max_results) THEN results
    ELSE ScanLines(file, lines, line_num + 1, results, query, case_sensitive, max_results)

\* the inner loop over the lines of one file, from line line_num on
ScanLines(file, lines, line_num, results, query, case_sensitive, max_results) ==
    IF line_num > Len(lines) THEN results
    ELSE IF LineMatches(lines[line_num], query, case_sensitive)
    THEN AfterMatch(file, lines, line_num,
                    Append(results, Match(file, line_num, lines[line_num])),
                    query, case_sensitive, max_results)
    ELSE ScanLines(file, lines, line_num + 1, results, query, case_sensitive, max_results)

RECURSIVE ScanFiles(_, _, _, _, _, _)

\* after a file: stop at the limit or go to the next file
AfterFile(entries, k, results, query, case_sensitive, max_results) ==
    IF LimitReached(results, max_results) THEN results
    ELSE ScanFiles(entries, k + 1, results, query, case_sensitive, max_results)

\* the outer loop over the entries, from entry k on
ScanFiles(entries, k, results, query, case_sensitive, max_results) ==
    IF k > Len(entries) THEN results
    ELSE IF ~entries[k].is_file
    THEN ScanFiles(entries, k + 1, results, query, case_sensitive, max_results)
    ELSE AfterFile(entries, k,
                   ScanLines(k, entries[k].lines, 1, results, query, case_sensitive,
                             max_results),
                   query, case_sensitive, max_results)

SearchResult(query, results, max_results) ==
    [ok |-> TRUE, fn |-> "search_content", query |-> query, results |-> results,
     result_count |-> Len(results), truncated |-> Len(results) >= max_results]

SearchContent(query, max_results, case_sensitive, disk) ==
    IF disk.root = "none"
    THEN [ok |-> FALSE, fn |-> "search_content", error |-> "Directory not found"]
    ELSE IF disk.root # "dir"
    THEN [ok |-> FALSE, fn |-> "search_content", error |-> "Path is not a directory"]
    ELSE SearchResult(query,
                      ScanFiles(disk.entries, 1, <<>>, query, case_sensitive, max_results),
                      max_results)

InitSearch ==
    /\ MainIdle
    /\ fs \in SearchDisks
    /\ call = NoCall
    /\ ret = NoReturn
    /\ fsAfter = NoDisk

CallSearchContent ==
    /\ call = NoCall
    /\ \E query \in {<<"s">>, <<"S">>, <<>>}, max_results \in 0..MaxSearchResults,
          case_sensitive \in BOOLEAN :
        /\ call' = [fn |-> "search_content", query |-> query, max_results |-> max_results,
                    case_sensitive |-> case_sensitive]
        /\ ret' = SearchContent(query, max_results, case_sensitive, fs)
    /\ fsAfter' = fs
    /\ UNCHANGED fs
    /\ UNCHANGED mainVars

NextSearch == CallSearchContent

SpecSearch == InitSearch /\ [][NextSearch]_vars

\* every match of the tree, in the order of the scan
AllMatches(disk, query, case_sensitive) ==
    ScanFiles(disk.entries, 1, <<>>, query, case_sensitive,
              MaxFiles * MaxLines + MaxFiles + MaxLines + 2)

\* C18: search_content returns at most max_results matches, for every
\* max_results >= 0: the first ones of the scan
C18_AtMostMaxResults ==
    (call.fn = "search_content" /\ ret.ok) =>
        /\ Len(ret.results) <= call.max_results
        /\ ret.results = SubSeq(AllMatches(fs, call.query, call.case_sensitive), 1,
                                Len(ret.results))

====
